---- MODULE Spec2Model ----
(***************************************************************************)
(* A model of the process types of package parallel (colinc86/parallel):   *)
(* VariableProcess (src/variableprocess.go) and the two FixedProcess       *)
(* revisions (src/fixedprocess.go, src/unnamed/part_006), with the         *)
(* goroutines they start, the sync.WaitGroup they wait on and the          *)
(* time.Ticker that drives optimization.                                   *)
(*                                                                         *)
(* One step of the model is one access to shared memory by one goroutine   *)
(* (a safeInt call, an atomic load/add/store, a WaitGroup call), together  *)
(* with the goroutine-local computation that follows it.                   *)
(***************************************************************************)
EXTENDS Integers, FiniteSets, Sequences, Bags, TLC

\* ---------------------------------------------------------------- bounds
\* Largest iteration count passed to Execute.
MaxIterations == 3
\* Largest value of VariableProcess.maxRoutines (constructor, SetMaxRoutines).
MaxMaxRoutines == 2
\* Largest goroutine count of a FixedProcess.
MaxFixedRoutines == 2
\* Number of events from outside the process in one behaviour: firings of
\* a ticker and calls of SetOptimizationInterval.
MaxEvents == 3
\* Number of calls of SetMaxRoutines in one behaviour.
MaxMaxChanges == 1
\* executed[i] counts the invocations of operation(i) up to this value.
MaxCount == 2
\* Controller outputs u are the halves h/2 with -MaxOutput <= h <= 2*MaxOutput.
MaxOutput == 2
\* Number of calls of Execute on one VariableProcess.
MaxExecutes == 2
\* Largest iteration count of a process that is executed twice.
MaxReuseIterations == 2
\* Number of ControllerConfiguration objects the caller allocates or receives.
MaxObjects == 3
\* The field Kp of a ControllerConfiguration ranges over 0 .. MaxGain.
MaxGain == 1
MaxThreads == 3          \* goroutines that call one safeInt concurrently
MaxDelta == 2            \* largest argument of a safeInt call
MaxControllerCalls == 3  \* calls of next and reset made on one controller
MaxTime == 3             \* latest instant of the wall clock and of the CPU clock
MaxUsage == 1            \* largest CPU usage (in CPUs) given to controller.next

VARIABLES
    kind,            \* the process type under execution
    pcE,             \* position of the goroutine that calls Execute
    iterations,      \* p.iterations
    iteration,       \* p.iteration.value (p.count.value in src/fixedprocess.go)
    numRoutines,     \* p.numRoutines
    numToRemove,     \* p.numToRemove
    maxRoutines,     \* p.maxRoutines.value
    group,           \* counter of p.group (sync.WaitGroup)
    ticker,          \* p.ticker: 0 is nil, g > 0 the ticker made by goroutine g
    workers,         \* bag of the runRoutine goroutines that have not returned
    optimizers,      \* the beginOptimizing goroutines, by identity
    executed,        \* executed[i]: how often operation(i) has been invoked
    stopAt,          \* the index whose operation calls Stop(), -1 if none does
    stopped,         \* Stop() has been called
    dispensed,       \* the counter value the first Stop() overwrote, -1 before
    ticks,           \* number of ticker firings so far
    changes,         \* [interval |-> , max |-> ]: setter calls so far
    optimizationInterval,  \* p.optimizationInterval: 1 is positive, 0 is not
    configuration,   \* p.controller.configuration: an object of heap, 0 is nil
    heap,            \* the ControllerConfiguration objects the caller can reach
    executes,        \* number of calls of Execute so far
    safe,            \* a safeInt on its own: [value |-> , mutex |-> holder or 0]
    calls,           \* calls[t]: the call of safeInt that goroutine t makes
    controller,      \* controller[k]: a controller with its configuration
    reporter,        \* a reporter: lastTime, lastTick and what usage returned
    C                \* number of values in the channel C of a SyncedProcess

vars == << kind, pcE, iterations, iteration, numRoutines, numToRemove,
           maxRoutines, group, ticker, workers, optimizers, executed,
           stopAt, stopped, dispensed, ticks, changes,
           optimizationInterval, configuration, heap, executes,
           safe, calls, controller, reporter, C >>

\* The goroutines that share one safeInt, and the call none of them has made.
Threads == 1 .. MaxThreads
NoCall == [pc |-> "idle", op |-> "none", n |-> 0, post |-> 0, ret |-> 0]

Kinds == {"Variable", "FixedGet", "FixedGetAndAdd"}
Objects == 1 .. MaxObjects
Gains == 0 .. MaxGain

\* A slot of the heap that holds no ControllerConfiguration yet.
NoObject == [Kp |-> -1, Ki |-> -1, Kd |-> -1,
             ErrorResponse |-> -1, OutputResponse |-> -1]
Indices == 0 .. (MaxIterations - 1)
OptimizerIds == 1 .. (MaxExecutes + MaxEvents)
Outputs == (0 - MaxOutput) .. (2 * MaxOutput)

Min(a, b) == IF a < b THEN a ELSE b

\* ------------------------------------------------------------- safeInt
\* safeInt.get: the value.
get(v) == v

\* A store that is lost.
keep(v, n) == v

\* safeInt.set: the new value (also what set returns).
set(v, n) == n

\* safeInt.subtract: the new value, which is also what subtract returns.
subtract(v, n) == v - n

\* safeInt.add: the new value, which is also what add returns.
add(v, n) == v + n

\* safeInt.getAndAdd: the pair <<returned value, new value>>; the caller
\* uses the returned value as its claim (counter.add(1) - 1).
getAndAdd(v, n) == << v, v + n >>

\* math.Ceil of the controller output h/2.
Ceil(h) == IF h % 2 = 0 THEN h \div 2 ELSE (h + 1) \div 2

\* ---------------------------------------------------------------- float64
\* The float64 values that occur are small dyadic rationals, which float64
\* holds exactly: << n, d >> is n/d in lowest terms with d > 0.
Abs(a) == IF a < 0 THEN 0 - a ELSE a

RECURSIVE GCD(_, _)
GCD(a, b) == IF b = 0 THEN a ELSE GCD(b, a % b)

Rat(n, d) ==
    LET sgn == IF d < 0 THEN -1 ELSE 1
        g == GCD(Abs(n), Abs(d))
    IN << (sgn * n) \div g, (sgn * d) \div g >>

Zero == << 0, 1 >>
One == << 1, 1 >>
RAdd(a, b) == Rat(a[1] * b[2] + b[1] * a[2], a[2] * b[2])
RSub(a, b) == Rat(a[1] * b[2] - b[1] * a[2], a[2] * b[2])
RMul(a, b) == Rat(a[1] * b[1], a[2] * b[2])

\* int(math.Ceil(u)) of a float64 u.
Ceiling(u) == 0 - ((0 - u[1]) \div u[2])

\* ------------------------------------------------------------- controller
\* runtime.NumCPU()
NumCPU == 2

Controllers == 1 .. 2

\* The values a field of a ControllerConfiguration is drawn from: the gains
\* are whole numbers, the responses 1/2 and 1.
GainGrid == {Rat(g, 1) : g \in Gains}
ResponseGrid == {Rat(r, 2) : r \in 1 .. 2}
Configurations ==
    [Kp : GainGrid, Ki : GainGrid, Kd : GainGrid,
     ErrorResponse : ResponseGrid, OutputResponse : ResponseGrid]

\* A controller as newController returns it; input, u, e and m are the
\* argument and the results of the latest call of next and the target a
\* tick derives from them, op the latest call, since the inputs and
\* outputs of the calls of next after the latest reset.
NewController(c) ==
    [configuration |-> c, cpuCount |-> NumCPU,
     previousError |-> Zero, totalError |-> Zero, previousOutput |-> Zero,
     input |-> 0, u |-> Zero, e |-> Zero, m |-> 0,
     op |-> "new", ops |-> 0, resets |-> 0, since |-> << >>]

\* No controller has been made yet.
NoController ==
    [NewController([Kp |-> Zero, Ki |-> Zero, Kd |-> Zero,
                    ErrorResponse |-> Zero, OutputResponse |-> Zero])
        EXCEPT !.op = "none"]

\* ---------------------------------------------------------------- reporter
\* No reporter has been made yet. nowClock and nowActual are the clock
\* readings of the latest call, usage and actualSeconds what usage returned.
NoReporter == [lastTime |-> 0, lastTick |-> 0, op |-> "none",
               nowClock |-> 0, nowActual |-> 0,
               usage |-> << "none", Zero >>, actualSeconds |-> Zero]

\* C.CLOCKS_PER_SEC, and the instants of the wall clock in one second.
ClocksPerSec == 2
InstantsPerSec == 2

\* x / y on float64: a zero divisor gives NaN for 0/0 and +Inf for a
\* positive dividend, no panic.
Quotient(x, y) ==
    IF y[1] = 0
      THEN IF x[1] = 0 THEN << "NaN", Zero >> ELSE << "+Inf", Zero >>
      ELSE << "finite", Rat(x[1] * y[2], x[2] * y[1]) >>

\* ------------------------------------------------------------ goroutines
Worker(pc, i) == [pc |-> pc, i |-> IF pc = "op" THEN i ELSE 0]

\* A goroutine created by `go p.runRoutine()`.
NewWorker(k) ==
    Worker(IF k = "FixedGetAndAdd" THEN "getAndAdd" ELSE "get", 0)

\* A loop of go statements that starts one goroutine too many.
CopiesOneMore(w, n) == IF n > 0 THEN [x \in {w} |-> n + 1] ELSE EmptyBag

Copies(w, n) == IF n > 0 THEN [x \in {w} |-> n] ELSE EmptyBag

Replace(w, w2) == (workers (-) SetToBag({w})) (+) SetToBag({w2})

\* afterSetMax records that the tick in progress began after the latest call
\* of SetMaxRoutines had returned.
NoOptimizer == [pc |-> "none", running |-> FALSE, buffered |-> FALSE,
                n |-> 0, routines |-> 0, afterSetMax |-> FALSE]

\* The goroutine created by `go p.beginOptimizing()`: the next free identity.
NextOptimizer == Cardinality({g \in OptimizerIds : optimizers[g].pc # "none"}) + 1

Alive == pcE # "panic"

\* A further ticker firing or call of SetOptimizationInterval fits the bound.
MoreEvents == ticks + changes.interval < MaxEvents

\* Where Execute continues when group.Wait() returns: VariableProcess stops
\* its ticker, FixedProcess returns.
AfterWait ==
    CASE kind = "Variable" -> "stopTicker"
      [] kind = "Synced" -> "send"
      [] OTHER -> "returned"

\* sync.WaitGroup.Add(-1): the counter drops, and the goroutine blocked in
\* Wait is released when it reaches zero.
Released(newGroup) ==
    IF newGroup < 0 THEN "panic"
    ELSE IF newGroup = 0 /\ pcE = "blocked" THEN AfterWait
    ELSE pcE

\* A loop test that stops one index early.
AfterClaimOffByOne(i) == IF i + 1 < iterations THEN "op" ELSE "done"

\* The loop test of runRoutine once i holds a claim.
AfterClaim(i) == IF i < iterations THEN "op" ELSE "done"

\* --------------------------------------------------------------- Init
InitOf(kinds) ==
    /\ kind \in kinds
    /\ pcE = "ready"
    /\ iterations = 0
    /\ iteration = 0
    /\ numRoutines \in (IF kind = "Variable" THEN {0} ELSE 1 .. MaxFixedRoutines)
    /\ numToRemove = 0
    /\ maxRoutines \in (IF kind = "Variable" THEN 1 .. MaxMaxRoutines ELSE {0})
    /\ group = 0
    /\ ticker = 0
    /\ workers = EmptyBag
    /\ optimizers = [g \in OptimizerIds |-> NoOptimizer]
    /\ executed = [i \in Indices |-> 0]
    /\ stopAt = -1
    /\ stopped = FALSE
    /\ dispensed = -1
    /\ ticks = 0
    /\ changes = [interval |-> 0, max |-> 0]
    /\ optimizationInterval = 1
    /\ configuration = 0
    /\ heap = [o \in Objects |-> NoObject]
    /\ executes = 0
    /\ safe = [value |-> 0, mutex |-> 0]
    /\ calls = [t \in Threads |-> NoCall]
    /\ controller = [k \in Controllers |-> NoController]
    /\ reporter = NoReporter
    /\ C = 0

\* The state after construction of a VariableProcess or a FixedProcess.
Init == InitOf(Kinds)

\* ------------------------------------------------------- VariableProcess
\* VariableProcess.reset followed by group.Add(1) and the two go statements.
ExecuteVariable(N, k) ==
    /\ kind = "Variable" /\ pcE = "ready"
    /\ iterations' = N
    /\ stopAt' = k
    /\ numRoutines' = 1
    /\ iteration' = set(iteration, 0)
    /\ numToRemove' = 0
    /\ group' = group + 1
    /\ workers' = workers (+) Copies(NewWorker(kind), 1)
    /\ optimizers' = [optimizers EXCEPT ![NextOptimizer].pc = "create"]
    /\ pcE' = "wait"
    /\ executes' = executes + 1
    /\ UNCHANGED << safe, calls, controller, reporter, C,
                    kind, optimizationInterval, configuration, heap,
                    maxRoutines, ticker, executed, stopped, dispensed, ticks,
                    changes >>

\* p.group.Wait() is called: it returns at once on a zero counter.
Wait ==
    /\ pcE = "wait"
    /\ pcE' = IF group = 0 THEN AfterWait ELSE "blocked"
    /\ UNCHANGED << safe, calls, controller, reporter, C,
                    kind, optimizationInterval, configuration, heap, executes,
                    iterations, iteration, numRoutines, numToRemove,
                    maxRoutines, group, ticker, workers, optimizers, executed,
                    stopAt, stopped, dispensed, ticks, changes >>

\* p.ticker.Stop() and the return of Execute; a nil p.ticker panics.
StopTicker ==
    /\ pcE = "stopTicker"
    /\ IF ticker = 0
         THEN /\ pcE' = "panic"
              /\ UNCHANGED optimizers
         ELSE /\ pcE' = "returned"
              /\ optimizers' = [optimizers EXCEPT ![ticker].running = FALSE]
    /\ UNCHANGED << safe, calls, controller, reporter, C,
                    kind, optimizationInterval, configuration, heap, executes,
                    iterations, iteration, numRoutines, numToRemove,
                    maxRoutines, group, ticker, workers, executed,
                    stopAt, stopped, dispensed, ticks, changes >>

\* i := p.iteration.get() and the loop test (i := p.count.get() in
\* src/fixedprocess.go).
RoutineGet(w) ==
    /\ Alive /\ w.pc = "get"
    /\ workers' = Replace(w, Worker(AfterClaim(get(iteration)), get(iteration)))
    /\ UNCHANGED << safe, calls, controller, reporter, C,
                    kind, optimizationInterval, configuration, heap, executes,
                    pcE, iterations, iteration, numRoutines, numToRemove,
                    maxRoutines, group, ticker, optimizers, executed,
                    stopAt, stopped, dispensed, ticks, changes >>

\* A Stop that leaves the last index to be claimed.
StopShort(v) == set(v, iterations - 1)

\* A Stop that rewinds the counter.
StopRewind(v) == set(v, 0)

\* FixedProcess.Stop: p.iteration.set(p.iterations).
Stop(v) == set(v, iterations)

\* VariableProcess.Stop: iteration := iterations.
StopVariable(v) == set(v, iterations)

\* p.operation(i); the operation of index stopAt calls p.Stop().
Operation(w) ==
    /\ Alive /\ w.pc = "op"
    /\ executed' = [executed EXCEPT ![w.i] = Min(@ + 1, MaxCount)]
    /\ IF w.i = stopAt
         THEN /\ iteration' = IF kind = "Variable" THEN StopVariable(iteration)
                                                    ELSE Stop(iteration)
              /\ stopped' = TRUE
              /\ dispensed' = IF stopped THEN dispensed ELSE iteration
         ELSE UNCHANGED << iteration, stopped, dispensed >>
    /\ workers' = Replace(w, Worker(CASE kind = "Variable" -> "load"
                                      [] kind = "FixedGet" -> "add"
                                      [] OTHER -> "getAndAdd", 0))
    /\ UNCHANGED << safe, calls, controller, reporter, C,
                    kind, optimizationInterval, configuration, heap, executes,
                    pcE, iterations, numRoutines, numToRemove,
                    maxRoutines, group, ticker, optimizers,
                    stopAt, ticks, changes >>

\* n := atomic.LoadInt64(&p.numToRemove) and the test n > 0.
LoadNumToRemove(w) ==
    /\ Alive /\ w.pc = "load"
    /\ workers' = Replace(w, Worker(IF numToRemove > 0 THEN "check" ELSE "add", 0))
    /\ UNCHANGED << safe, calls, controller, reporter, C,
                    kind, optimizationInterval, configuration, heap, executes,
                    pcE, iterations, iteration, numRoutines, numToRemove,
                    maxRoutines, group, ticker, optimizers, executed,
                    stopAt, stopped, dispensed, ticks, changes >>

\* With n > 0: atomic.LoadInt64(&p.numRoutines) > 1 selects the exit branch,
\* otherwise the `else if n > 0` branch.
LoadNumRoutines(w) ==
    /\ Alive /\ w.pc = "check"
    /\ workers' = Replace(w, Worker(IF numRoutines > 1 THEN "remove" ELSE "absorb", 0))
    /\ UNCHANGED << safe, calls, controller, reporter, C,
                    kind, optimizationInterval, configuration, heap, executes,
                    pcE, iterations, iteration, numRoutines, numToRemove,
                    maxRoutines, group, ticker, optimizers, executed,
                    stopAt, stopped, dispensed, ticks, changes >>

\* Exit branch: atomic.AddInt64(&p.numToRemove, -1).
RemoveNumToRemove(w) ==
    /\ Alive /\ w.pc = "remove"
    /\ numToRemove' = numToRemove - 1
    /\ workers' = Replace(w, Worker("leave", 0))
    /\ UNCHANGED << safe, calls, controller, reporter, C,
                    kind, optimizationInterval, configuration, heap, executes,
                    pcE, iterations, iteration, numRoutines,
                    maxRoutines, group, ticker, optimizers, executed,
                    stopAt, stopped, dispensed, ticks, changes >>

\* Exit branch: atomic.AddInt64(&p.numRoutines, -1); break.
RemoveNumRoutines(w) ==
    /\ Alive /\ w.pc = "leave"
    /\ numRoutines' = numRoutines - 1
    /\ workers' = Replace(w, Worker("done", 0))
    /\ UNCHANGED << safe, calls, controller, reporter, C,
                    kind, optimizationInterval, configuration, heap, executes,
                    pcE, iterations, iteration, numToRemove,
                    maxRoutines, group, ticker, optimizers, executed,
                    stopAt, stopped, dispensed, ticks, changes >>

\* An `else if n > 0` branch that leaves the loop as the exit branch does.
AbsorbAndLeave(w) ==
    /\ Alive /\ w.pc = "absorb"
    /\ numToRemove' = numToRemove - 1
    /\ workers' = Replace(w, Worker("leave", 0))
    /\ UNCHANGED << safe, calls, controller, reporter, C,
                    kind, optimizationInterval, configuration, heap, executes,
                    pcE, iterations, iteration, numRoutines,
                    maxRoutines, group, ticker, optimizers, executed,
                    stopAt, stopped, dispensed, ticks, changes >>

\* `else if n > 0`: atomic.AddInt64(&p.numToRemove, -1).
Absorb(w) ==
    /\ Alive /\ w.pc = "absorb"
    /\ numToRemove' = numToRemove - 1
    /\ workers' = Replace(w, Worker("add", 0))
    /\ UNCHANGED << safe, calls, controller, reporter, C,
                    kind, optimizationInterval, configuration, heap, executes,
                    pcE, iterations, iteration, numRoutines,
                    maxRoutines, group, ticker, optimizers, executed,
                    stopAt, stopped, dispensed, ticks, changes >>

\* i = p.iteration.add(1) and the loop test.
RoutineAdd(w) ==
    /\ Alive /\ w.pc = "add"
    /\ iteration' = add(iteration, 1)
    /\ workers' = Replace(w, Worker(AfterClaim(iteration'), iteration'))
    /\ UNCHANGED << safe, calls, controller, reporter, C,
                    kind, optimizationInterval, configuration, heap, executes,
                    pcE, iterations, numRoutines, numToRemove,
                    maxRoutines, group, ticker, optimizers, executed,
                    stopAt, stopped, dispensed, ticks, changes >>

\* i = p.iteration.getAndAdd(1) and the loop test (src/unnamed/part_006).
RoutineGetAndAdd(w) ==
    /\ Alive /\ w.pc = "getAndAdd"
    /\ iteration' = getAndAdd(iteration, 1)[2]
    /\ workers' = Replace(w, Worker(AfterClaim(getAndAdd(iteration, 1)[1]),
                                    getAndAdd(iteration, 1)[1]))
    /\ UNCHANGED << safe, calls, controller, reporter, C,
                    kind, optimizationInterval, configuration, heap, executes,
                    pcE, iterations, numRoutines, numToRemove,
                    maxRoutines, group, ticker, optimizers, executed,
                    stopAt, stopped, dispensed, ticks, changes >>

\* p.group.Done(): the goroutine returns.
RoutineDone(w) ==
    /\ Alive /\ w.pc = "done"
    /\ group' = group - 1
    /\ pcE' = Released(group')
    /\ workers' = workers (-) SetToBag({w})
    /\ UNCHANGED << safe, calls, controller, reporter, C,
                    kind, optimizationInterval, configuration, heap, executes,
                    iterations, iteration, numRoutines, numToRemove,
                    maxRoutines, ticker, optimizers, executed,
                    stopAt, stopped, dispensed, ticks, changes >>

runRoutine(w) ==
    \/ RoutineGet(w)
    \/ RoutineGetAndAdd(w)
    \/ Operation(w)
    \/ LoadNumToRemove(w)
    \/ LoadNumRoutines(w)
    \/ RemoveNumToRemove(w)
    \/ RemoveNumRoutines(w)
    \/ Absorb(w)
    \/ RoutineAdd(w)
    \/ RoutineDone(w)

\* ---------------------------------------------------------- optimization
\* beginOptimizing: p.ticker = time.NewTicker(p.optimizationInterval);
\* time.NewTicker panics on an interval that is not positive.
NewTicker(g) ==
    /\ Alive /\ optimizers[g].pc = "create"
    /\ IF optimizationInterval <= 0
         THEN /\ pcE' = "panic"
              /\ UNCHANGED << ticker, optimizers >>
         ELSE /\ pcE' = pcE
              /\ ticker' = g
              /\ optimizers' = [optimizers EXCEPT ![g].pc = "recv",
                                                  ![g].running = TRUE]
    /\ UNCHANGED << safe, calls, controller, reporter, C,
                    kind, optimizationInterval, configuration, heap, executes,
                    iterations, iteration, numRoutines, numToRemove,
                    maxRoutines, group, workers, executed,
                    stopAt, stopped, dispensed, ticks, changes >>

\* The runtime delivers a tick of a running ticker into its channel, which
\* buffers one tick.
TickerFire(g) ==
    /\ Alive /\ optimizers[g].running /\ ~optimizers[g].buffered
    /\ MoreEvents
    /\ ticks' = ticks + 1
    /\ optimizers' = [optimizers EXCEPT ![g].buffered = TRUE]
    /\ UNCHANGED << safe, calls, controller, reporter, C,
                    kind, optimizationInterval, configuration, heap, executes,
                    pcE, iterations, iteration, numRoutines, numToRemove,
                    maxRoutines, group, ticker, workers, executed,
                    stopAt, stopped, dispensed, changes >>

\* `for range p.ticker.C` receives a tick and optimizeNumRoutines begins:
\* p.group.Add(1).
TickGroupAdd(g) ==
    /\ Alive /\ optimizers[g].pc = "recv" /\ optimizers[g].buffered
    /\ group' = group + 1
    /\ optimizers' = [optimizers EXCEPT ![g].pc = "control",
                                        ![g].buffered = FALSE,
                                        ![g].afterSetMax = changes.max >= 1]
    /\ UNCHANGED << safe, calls, controller, reporter, C,
                    kind, optimizationInterval, configuration, heap, executes,
                    pcE, iterations, iteration, numRoutines, numToRemove,
                    maxRoutines, workers, ticker, executed,
                    stopAt, stopped, dispensed, ticks, changes >>

\* The target without the clamp by p.maxRoutines.value.
TargetUnclamped(h, max) == Ceil(h)

\* m := int(math.Ceil(u)) clamped from above by p.maxRoutines.value.
Target(h, max) == Min(Ceil(h), max)

\* optimizeNumRoutines up to n := m - routines; the controller output is
\* h/2, any value the CPU usage of the interval may produce.
TickControl(g, h) ==
    /\ Alive /\ optimizers[g].pc = "control"
    /\ optimizers' = [optimizers EXCEPT
                        ![g].pc = "apply",
                        ![g].routines = numRoutines,
                        ![g].n = Target(h, maxRoutines) - numRoutines]
    /\ UNCHANGED << safe, calls, controller, reporter, C,
                    kind, optimizationInterval, configuration, heap, executes,
                    pcE, iterations, iteration, numRoutines, numToRemove,
                    maxRoutines, group, ticker, workers, executed,
                    stopAt, stopped, dispensed, ticks, changes >>

\* The n == 0 branch: p.group.Done().
TickKeep(g) ==
    /\ Alive /\ optimizers[g].pc = "apply" /\ optimizers[g].n = 0
    /\ group' = group - 1
    /\ pcE' = Released(group')
    /\ optimizers' = [optimizers EXCEPT ![g].pc = "recv", ![g].n = 0,
                                        ![g].routines = 0,
                                        ![g].afterSetMax = FALSE]
    /\ UNCHANGED << safe, calls, controller, reporter, C,
                    kind, optimizationInterval, configuration, heap, executes,
                    iterations, iteration, numRoutines, numToRemove,
                    maxRoutines, ticker, workers, executed,
                    stopAt, stopped, dispensed, ticks, changes >>

\* The n > 0 branch: p.group.Add(n - 1), atomic.AddInt64(&p.numRoutines, n)
\* and n go statements.
TickGrow(g) ==
    /\ Alive /\ optimizers[g].pc = "apply" /\ optimizers[g].n > 0
    /\ group' = group + (optimizers[g].n - 1)
    /\ numRoutines' = numRoutines + optimizers[g].n
    /\ workers' = workers (+) Copies(NewWorker(kind), optimizers[g].n)
    /\ optimizers' = [optimizers EXCEPT ![g].pc = "recv", ![g].n = 0,
                                        ![g].routines = 0,
                                        ![g].afterSetMax = FALSE]
    /\ UNCHANGED << safe, calls, controller, reporter, C,
                    kind, optimizationInterval, configuration, heap, executes,
                    pcE, iterations, iteration, numToRemove,
                    maxRoutines, ticker, executed,
                    stopAt, stopped, dispensed, ticks, changes >>

\* The n < 0 branch: with routines > 1, atomic.StoreInt64(&p.numToRemove, -n);
\* then p.group.Done().
TickShrink(g) ==
    /\ Alive /\ optimizers[g].pc = "apply" /\ optimizers[g].n < 0
    /\ numToRemove' = IF optimizers[g].routines > 1
                        THEN 0 - optimizers[g].n
                        ELSE numToRemove
    /\ group' = group - 1
    /\ pcE' = Released(group')
    /\ optimizers' = [optimizers EXCEPT ![g].pc = "recv", ![g].n = 0,
                                        ![g].routines = 0,
                                        ![g].afterSetMax = FALSE]
    /\ UNCHANGED << safe, calls, controller, reporter, C,
                    kind, optimizationInterval, configuration, heap, executes,
                    iterations, iteration, numRoutines,
                    maxRoutines, ticker, workers, executed,
                    stopAt, stopped, dispensed, ticks, changes >>

beginOptimizing(g) ==
    \/ NewTicker(g)
    \/ TickGroupAdd(g)
    \/ \E h \in Outputs : TickControl(g, h)
    \/ TickKeep(g)
    \/ TickGrow(g)
    \/ TickShrink(g)

\* ---------------------------------------------------------------- setters
\* The caller changes the parameters while the process is executing.
Executing == pcE \in {"wait", "blocked", "stopTicker"}

\* SetOptimizationInterval: p.ticker.Stop() (a nil p.ticker panics), then
\* p.optimizationInterval = interval, a positive one, and
\* go p.beginOptimizing().
SetOptimizationInterval ==
    /\ kind = "Variable" /\ Executing
    /\ MoreEvents
    /\ changes' = [changes EXCEPT !.interval = @ + 1]
    /\ IF ticker = 0
         THEN /\ pcE' = "panic"
              /\ UNCHANGED << optimizers, optimizationInterval >>
         ELSE /\ pcE' = pcE
              /\ optimizationInterval' = 1
              /\ optimizers' = [optimizers EXCEPT ![ticker].running = FALSE,
                                                  ![NextOptimizer].pc = "create"]
    /\ UNCHANGED << safe, calls, controller, reporter, C,
                    kind, configuration, heap, executes,
                    iterations, iteration, numRoutines, numToRemove,
                    maxRoutines, group, ticker, workers, executed,
                    stopAt, stopped, dispensed, ticks >>

\* SetMaxRoutines: p.maxRoutines.set(n), n greater than 0.
SetMaxRoutines(n) ==
    /\ kind = "Variable" /\ Executing
    /\ changes.max < MaxMaxChanges
    /\ changes' = [changes EXCEPT !.max = @ + 1]
    /\ maxRoutines' = set(maxRoutines, n)
    /\ optimizers' = [g \in OptimizerIds |->
                        [optimizers[g] EXCEPT !.afterSetMax = FALSE]]
    /\ UNCHANGED << safe, calls, controller, reporter, C,
                    kind, optimizationInterval, configuration, heap, executes,
                    pcE, iterations, iteration, numRoutines, numToRemove,
                    group, ticker, workers, executed,
                    stopAt, stopped, dispensed, ticks >>

\* ----------------------------------------------------------- FixedProcess
\* FixedProcess.Execute up to group.Wait(): the counter is set to 0,
\* group.Add(p.numRoutines) and one go statement per routine.  Only the
\* revision of src/unnamed/part_006 has a Stop method.
ExecuteFixed(N, k) ==
    /\ kind # "Variable" /\ pcE = "ready"
    /\ kind = "FixedGet" => k = -1
    /\ iterations' = N
    /\ stopAt' = k
    /\ iteration' = set(iteration, 0)
    /\ group' = group + numRoutines
    /\ workers' = workers (+) Copies(NewWorker(kind), numRoutines)
    /\ pcE' = "wait"
    /\ executes' = executes + 1
    /\ UNCHANGED << safe, calls, controller, reporter, C,
                    kind, optimizationInterval, configuration, heap,
                    numRoutines, numToRemove, maxRoutines, ticker,
                    optimizers, executed, stopped, dispensed, ticks, changes >>

\* ------------------------------------------------------------------ Next
Next ==
    \/ \E N \in 0 .. MaxIterations : \E k \in -1 .. (N - 1) : ExecuteVariable(N, k)
    \/ \E N \in 0 .. MaxIterations : \E k \in -1 .. (N - 1) : ExecuteFixed(N, k)
    \/ Wait
    \/ StopTicker
    \/ \E w \in BagToSet(workers) : runRoutine(w)
    \/ \E g \in OptimizerIds : beginOptimizing(g)
    \/ \E g \in OptimizerIds : TickerFire(g)
    \/ SetOptimizationInterval
    \/ \E n \in 1 .. MaxMaxRoutines : SetMaxRoutines(n)

Spec == Init /\ [][Next]_vars

\* A VariableProcess that is executed again once Execute has returned: the
\* second call passes the arguments of the first.  executed, stopped and
\* dispensed start to record the new run.
ExecuteAgain ==
    /\ kind = "Variable" /\ pcE = "returned" /\ executes < MaxExecutes
    /\ numRoutines' = 1
    /\ iteration' = set(iteration, 0)
    /\ numToRemove' = 0
    /\ group' = group + 1
    /\ workers' = workers (+) Copies(NewWorker(kind), 1)
    /\ optimizers' = [optimizers EXCEPT ![NextOptimizer].pc = "create"]
    /\ pcE' = "wait"
    /\ executes' = executes + 1
    /\ executed' = [i \in Indices |-> 0]
    /\ stopped' = FALSE
    /\ dispensed' = -1
    /\ UNCHANGED << safe, calls, controller, reporter, C,
                    kind, optimizationInterval, configuration, heap,
                    iterations, stopAt, maxRoutines, ticker, ticks, changes >>

InitReuse == Init /\ kind = "Variable"

\* The caller executes the process twice and calls no setter.
NextReuse ==
    \/ \E N \in 0 .. MaxReuseIterations : \E k \in -1 .. (N - 1) :
          ExecuteVariable(N, k)
    \/ ExecuteAgain
    \/ Wait
    \/ StopTicker
    \/ \E w \in BagToSet(workers) : runRoutine(w)
    \/ \E g \in OptimizerIds : beginOptimizing(g)
    \/ \E g \in OptimizerIds : TickerFire(g)

ReuseSpec == InitReuse /\ [][NextReuse]_vars

\* ------------------------------------------- construction, configuration
\* The process variables that a call on a ControllerConfiguration leaves
\* alone.
processVars == << kind, pcE, iterations, iteration, numRoutines, numToRemove,
                  maxRoutines, group, ticker, workers, optimizers, executed,
                  stopAt, stopped, dispensed, ticks, changes,
                  optimizationInterval, executes >>

processVarsButPc ==
    << kind, iterations, iteration, numRoutines, numToRemove,
       maxRoutines, group, ticker, workers, optimizers, executed,
       stopAt, stopped, dispensed, ticks, changes,
       optimizationInterval, executes >>

\* The objects that hold a ControllerConfiguration.
Allocated == {o \in Objects : heap[o] # NoObject}

\* The object the next allocation returns.
Free == CHOOSE o \in Objects \ Allocated :
            \A o2 \in Objects \ Allocated : o <= o2

\* ControllerConfiguration.Copy: a new object with the five fields of c.
Copy(c) ==
    [Kp |-> c.Kp, Ki |-> c.Ki, Kd |-> c.Kd,
     ErrorResponse |-> c.ErrorResponse, OutputResponse |-> c.OutputResponse]

\* NewControllerConfiguration(kp, 0, 0, 0, 0): the caller receives a pointer
\* to a new object.
NewControllerConfiguration(kp) ==
    /\ Allocated # Objects
    /\ heap' = [heap EXCEPT ![Free] =
                   [Kp |-> kp, Ki |-> 0, Kd |-> 0,
                    ErrorResponse |-> 0, OutputResponse |-> 0]]
    /\ UNCHANGED << safe, calls, controller, reporter, C,
                    processVars, configuration >>

\* NewVariableProcess(interval, maxRoutines, c, false): the arguments are
\* stored as they are, newController(c) keeps the pointer c.
NewVariableProcess(interval, max, c) ==
    /\ pcE = "new"
    /\ c \in Allocated
    /\ optimizationInterval' = interval
    /\ maxRoutines' = max
    /\ configuration' = c
    /\ pcE' = "ready"
    /\ UNCHANGED << safe, calls, controller, reporter, C,
                    kind, iterations, iteration, numRoutines, numToRemove,
                    group, ticker, workers, optimizers, executed, stopAt,
                    stopped, dispensed, ticks, changes, heap, executes >>

\* GetControllerConfiguration: the caller receives a pointer to a copy of
\* the object p.controller.configuration points to.
GetControllerConfiguration ==
    /\ pcE # "new"
    /\ Allocated # Objects
    /\ heap' = [heap EXCEPT ![Free] = Copy(heap[configuration])]
    /\ UNCHANGED << safe, calls, controller, reporter, C,
                    processVars, configuration >>

\* SetControllerConfiguration(c): p.controller.configuration = c.
SetControllerConfiguration(c) ==
    /\ pcE # "new"
    /\ c \in Allocated
    /\ configuration' = c
    /\ UNCHANGED << safe, calls, controller, reporter, C,
                    processVars, heap >>

\* The caller assigns the exported field Kp of an object it holds a
\* pointer to: c.Kp = kp.
AssignKp(c, kp) ==
    /\ c \in Allocated
    /\ heap' = [heap EXCEPT ![c].Kp = kp]
    /\ UNCHANGED << safe, calls, controller, reporter, C,
                    processVars, configuration >>

\* The caller holds one ControllerConfiguration and has created no process.
InitConstruct ==
    /\ kind = "Variable"
    /\ pcE = "new"
    /\ iterations = 0
    /\ iteration = 0
    /\ numRoutines = 0
    /\ numToRemove = 0
    /\ maxRoutines = 0
    /\ group = 0
    /\ ticker = 0
    /\ workers = EmptyBag
    /\ optimizers = [g \in OptimizerIds |-> NoOptimizer]
    /\ executed = [i \in Indices |-> 0]
    /\ stopAt = -1
    /\ stopped = FALSE
    /\ dispensed = -1
    /\ ticks = 0
    /\ changes = [interval |-> 0, max |-> 0]
    /\ optimizationInterval = 0
    /\ configuration = 0
    /\ heap = [o \in Objects |->
                 IF o = 1 THEN [Kp |-> 0, Ki |-> 0, Kd |-> 0,
                                ErrorResponse |-> 0, OutputResponse |-> 0]
                          ELSE NoObject]
    /\ executes = 0
    /\ safe = [value |-> 0, mutex |-> 0]
    /\ calls = [t \in Threads |-> NoCall]
    /\ controller = [k \in Controllers |-> NoController]
    /\ reporter = NoReporter
    /\ C = 0

\* The calls that involve a ControllerConfiguration.
NextConfiguration ==
    \/ \E kp \in Gains : NewControllerConfiguration(kp)
    \/ \E interval \in 0 .. 1 : \E max \in 0 .. MaxMaxRoutines :
          \E c \in Objects : NewVariableProcess(interval, max, c)
    \/ GetControllerConfiguration
    \/ \E c \in Objects : SetControllerConfiguration(c)
    \/ \E c \in Objects : \E kp \in Gains : AssignKp(c, kp)

ConfigurationSpec == InitConstruct /\ [][NextConfiguration]_vars

\* A process is constructed from any arguments and executed once, without
\* calls of the setters.
NextConstruct ==
    \/ \E interval \in 0 .. 1 : \E max \in -1 .. MaxMaxRoutines :
          \E c \in Objects : NewVariableProcess(interval, max, c)
    \/ \E N \in 0 .. MaxReuseIterations : \E k \in -1 .. (N - 1) :
          ExecuteVariable(N, k)
    \/ Wait
    \/ StopTicker
    \/ \E w \in BagToSet(workers) : runRoutine(w)
    \/ \E g \in OptimizerIds : beginOptimizing(g)
    \/ \E g \in OptimizerIds : TickerFire(g)

ConstructSpec == InitConstruct /\ [][NextConstruct]_vars

\* The Go scheduler runs every goroutine that can take a step: the caller of
\* Execute, the workers, each beginOptimizing goroutine.  Nothing obliges a
\* ticker to fire or the caller to call a setter.
Fairness ==
    /\ WF_vars(Wait \/ StopTicker)
    /\ WF_vars(\E w \in BagToSet(workers) : runRoutine(w))
    /\ \A g \in OptimizerIds : WF_vars(beginOptimizing(g))

LiveSpec == Spec /\ Fairness

\* The FixedProcess revisions alone.
InitFixed == Init /\ kind # "Variable"

NextFixed ==
    \/ \E N \in 0 .. MaxIterations : \E k \in -1 .. (N - 1) : ExecuteFixed(N, k)
    \/ Wait
    \/ \E w \in BagToSet(workers) :
          \/ RoutineGet(w)
          \/ RoutineGetAndAdd(w)
          \/ Operation(w)
          \/ RoutineAdd(w)
          \/ RoutineDone(w)

FixedSpec == InitFixed /\ [][NextFixed]_vars

\* A FixedProcess that is executed again once Execute has returned; executed
\* starts to record the new run.
ExecuteFixedAgain(N) ==
    /\ kind # "Variable" /\ pcE = "returned" /\ executes < MaxExecutes
    /\ iterations' = N
    /\ iteration' = set(iteration, 0)
    /\ group' = group + numRoutines
    /\ workers' = workers (+) Copies(NewWorker(kind), numRoutines)
    /\ pcE' = "wait"
    /\ executes' = executes + 1
    /\ executed' = [i \in Indices |-> 0]
    /\ UNCHANGED << safe, calls, controller, reporter, C,
                    kind, optimizationInterval, configuration, heap,
                    numRoutines, numToRemove, maxRoutines, ticker,
                    optimizers, stopAt, stopped, dispensed, ticks, changes >>

\* The caller calls Stop() while no Execute is active: before the first
\* Execute or between two.  dispensed records the counter value it found.
StopIdle ==
    /\ kind = "FixedGetAndAdd" /\ pcE \in {"ready", "returned"}
    /\ iteration' = Stop(iteration)
    /\ stopped' = TRUE
    /\ dispensed' = iteration
    /\ UNCHANGED << safe, calls, controller, reporter, C,
                    kind, optimizationInterval, configuration, heap, executes,
                    pcE, iterations, numRoutines, numToRemove,
                    maxRoutines, group, ticker, workers, optimizers, executed,
                    stopAt, ticks, changes >>

InitIdleStop == Init /\ kind = "FixedGetAndAdd"

\* Executions whose operations do not call Stop, with calls of Stop by the
\* caller in between.
NextIdleStop ==
    \/ \E N \in 0 .. MaxIterations : ExecuteFixed(N, -1)
    \/ \E N \in 0 .. MaxIterations : ExecuteFixedAgain(N)
    \/ StopIdle
    \/ Wait
    \/ \E w \in BagToSet(workers) :
          \/ RoutineGetAndAdd(w)
          \/ Operation(w)
          \/ RoutineDone(w)

IdleStopSpec == InitIdleStop /\ [][NextIdleStop]_vars

\* ----------------------------------------------------------- SyncedProcess
\* SyncedProcess.Execute up to group.Wait(): p.count = 0,
\* p.group.Add(p.numRoutines) and one go statement per routine.
ExecuteSynced(N) ==
    /\ kind = "Synced" /\ pcE = "ready"
    /\ iterations' = N
    /\ iteration' = 0
    /\ group' = group + numRoutines
    /\ workers' = workers (+) Copies(Worker("nextCount", 0), numRoutines)
    /\ pcE' = "wait"
    /\ executes' = executes + 1
    /\ UNCHANGED << safe, calls, controller, reporter, C,
                    kind, optimizationInterval, configuration, heap,
                    numRoutines, numToRemove, maxRoutines, ticker,
                    optimizers, executed, stopAt, stopped, dispensed, ticks,
                    changes >>

\* SyncedProcess.nextCount under countMutex: p.count++; return p.count.
nextCount(count) == count + 1

\* i := p.nextCount() or i = p.nextCount(), and the loop test.
RoutineNextCount(w) ==
    /\ Alive /\ w.pc = "nextCount"
    /\ iteration' = nextCount(iteration)
    /\ workers' = Replace(w, Worker(AfterClaim(iteration'), iteration'))
    /\ UNCHANGED << safe, calls, controller, reporter, C,
                    kind, optimizationInterval, configuration, heap, executes,
                    pcE, iterations, numRoutines, numToRemove,
                    maxRoutines, group, ticker, optimizers, executed,
                    stopAt, stopped, dispensed, ticks, changes >>

\* operation(i - 1)
SyncedOperation(w) ==
    /\ Alive /\ kind = "Synced" /\ w.pc = "op"
    /\ executed' = [executed EXCEPT ![w.i - 1] = Min(@ + 1, MaxCount)]
    /\ workers' = Replace(w, Worker("nextCount", 0))
    /\ UNCHANGED << safe, calls, controller, reporter, C,
                    kind, optimizationInterval, configuration, heap, executes,
                    pcE, iterations, iteration, numRoutines, numToRemove,
                    maxRoutines, group, ticker, optimizers,
                    stopAt, stopped, dispensed, ticks, changes >>

\* p.C <- finishedProcess{} on the channel of capacity 1, and the return.
Send ==
    /\ kind = "Synced" /\ pcE = "send" /\ C < 1
    /\ C' = C + 1
    /\ pcE' = "returned"
    /\ UNCHANGED << processVarsButPc, configuration, heap,
                    safe, calls, controller, reporter >>

InitSynced == InitOf({"Synced"})

NextSynced ==
    \/ \E N \in 0 .. MaxIterations : ExecuteSynced(N)
    \/ Wait
    \/ Send
    \/ \E w \in BagToSet(workers) :
          \/ RoutineNextCount(w)
          \/ SyncedOperation(w)
          \/ RoutineDone(w)

SyncedSpec == InitSynced /\ [][NextSynced]_vars

\* ------------------------------------------------------ AlternatingProcess
\* The goroutine of `go p.runRoutine(n, iterations, operation)`: i is its
\* loop variable, n its start.
AltWorker(pc, i, n) == [pc |-> pc, i |-> i, n |-> n]

\* AlternatingProcess.Execute up to group.Wait():
\* p.group.Add(p.numRoutines) and one go statement per n.
ExecuteAlternating(N) ==
    /\ kind = "Alternating" /\ pcE = "ready"
    /\ iterations' = N
    /\ group' = group + numRoutines
    /\ workers' = SetToBag({AltWorker("loop", n, n) :
                               n \in 0 .. (numRoutines - 1)})
    /\ pcE' = "wait"
    /\ executes' = executes + 1
    /\ UNCHANGED << safe, calls, controller, reporter, C,
                    kind, optimizationInterval, configuration, heap,
                    iteration, numRoutines, numToRemove, maxRoutines, ticker,
                    optimizers, executed, stopAt, stopped, dispensed, ticks,
                    changes >>

\* The loop test i < end.
AltLoop(w) ==
    /\ Alive /\ kind = "Alternating" /\ w.pc = "loop"
    /\ workers' = Replace(w, AltWorker(AfterClaim(w.i), w.i, w.n))
    /\ UNCHANGED << safe, calls, controller, reporter, C,
                    kind, optimizationInterval, configuration, heap, executes,
                    pcE, iterations, iteration, numRoutines, numToRemove,
                    maxRoutines, group, ticker, optimizers, executed,
                    stopAt, stopped, dispensed, ticks, changes >>

\* A loop increment of one.
AdvanceByOne(i, W) == i + 1

\* i += p.numRoutines
Advance(i, W) == i + W

\* operation(i) and the loop increment.
AltOperation(w) ==
    /\ Alive /\ kind = "Alternating" /\ w.pc = "op"
    /\ executed' = [executed EXCEPT ![w.i] = Min(@ + 1, MaxCount)]
    /\ workers' = Replace(w, AltWorker("loop", Advance(w.i, numRoutines), w.n))
    /\ UNCHANGED << safe, calls, controller, reporter, C,
                    kind, optimizationInterval, configuration, heap, executes,
                    pcE, iterations, iteration, numRoutines, numToRemove,
                    maxRoutines, group, ticker, optimizers,
                    stopAt, stopped, dispensed, ticks, changes >>

InitAlternating == InitOf({"Alternating"})

NextAlternating ==
    \/ \E N \in 0 .. MaxIterations : ExecuteAlternating(N)
    \/ Wait
    \/ \E w \in BagToSet(workers) :
          \/ AltLoop(w)
          \/ AltOperation(w)
          \/ RoutineDone(w)

AlternatingSpec == InitAlternating /\ [][NextAlternating]_vars

\* ----------------------------------------------------------------- safeInt
\* The variables of the processes, which the calls of a safeInt leave alone.
modelVars == << processVars, configuration, heap, controller, reporter, C >>

SafeOps == {"get", "set", "add", "subtract"}
SafeArgs == 0 .. MaxDelta

\* A goroutine starts a call of get, set, add or subtract; each makes one.
Call(t, op, n) ==
    /\ calls[t].pc = "idle"
    /\ calls' = [calls EXCEPT ![t] = [NoCall EXCEPT !.pc = "lock", !.op = op,
                                                  !.n = n]]
    /\ UNCHANGED << modelVars, safe >>

\* A mutex that lets every caller in.
LockAnyway(m) == TRUE

\* s.mutex.Lock() returns only while no goroutine holds the mutex.
CanLock(m) == m = 0

\* s.mutex.Lock(): post records the value the call finds.
Lock(t) ==
    /\ calls[t].pc = "lock"
    /\ CanLock(safe.mutex)
    /\ safe' = [safe EXCEPT !.mutex = t]
    /\ calls' = [calls EXCEPT
                   ![t].pc = IF calls[t].op = "get" THEN "return" ELSE "update",
                   ![t].post = safe.value]
    /\ UNCHANGED modelVars

\* s.value = n, s.value += n, s.value -= n: post records the value the
\* call leaves.
Update(t) ==
    /\ calls[t].pc = "update"
    /\ LET v == CASE calls[t].op = "set" -> set(safe.value, calls[t].n)
                  [] calls[t].op = "add" -> add(safe.value, calls[t].n)
                  [] calls[t].op = "subtract" ->
                         subtract(safe.value, calls[t].n)
       IN /\ safe' = [safe EXCEPT !.value = v]
          /\ calls' = [calls EXCEPT ![t].pc = "return", ![t].post = v]
    /\ UNCHANGED modelVars

\* return s.value: the result is read before the deferred Unlock runs.
Return(t) ==
    /\ calls[t].pc = "return"
    /\ calls' = [calls EXCEPT ![t].pc = "unlock", ![t].ret = get(safe.value)]
    /\ UNCHANGED << modelVars, safe >>

\* defer s.mutex.Unlock()
Unlock(t) ==
    /\ calls[t].pc = "unlock"
    /\ safe' = [safe EXCEPT !.mutex = 0]
    /\ calls' = [calls EXCEPT ![t].pc = "done"]
    /\ UNCHANGED modelVars

InitSafeInt == Init /\ kind = "FixedGet" /\ numRoutines = 1

NextSafeInt ==
    \/ \E t \in Threads : \E op \in SafeOps : \E n \in SafeArgs : Call(t, op, n)
    \/ \E t \in Threads : Lock(t)
    \/ \E t \in Threads : Update(t)
    \/ \E t \in Threads : Return(t)
    \/ \E t \in Threads : Unlock(t)

SafeIntSpec == InitSafeInt /\ [][NextSafeInt]_vars

\* -------------------------------------------------------------- controller
\* controller.next: the controller after the call; u and e are the results.
next(c, input) ==
    LET cfg == c.configuration
        e0 == RSub(One, Rat(input, c.cpuCount))
        e == RAdd(RMul(cfg.ErrorResponse, e0),
                  RMul(RSub(One, cfg.ErrorResponse), c.previousError))
        i == RAdd(c.totalError, e)
        d == RSub(e, c.previousError)
        u0 == RAdd(RAdd(RMul(cfg.Kp, e), RMul(cfg.Ki, i)), RMul(cfg.Kd, d))
        u == RAdd(RMul(cfg.OutputResponse, u0),
                  RMul(RSub(cfg.OutputResponse, One), c.previousOutput))
    IN [c EXCEPT !.previousError = e, !.totalError = i,
                 !.previousOutput = u, !.u = u, !.e = e]

\* controller.reset
reset(c) ==
    [c EXCEPT !.previousError = Zero, !.totalError = Zero,
              !.cpuCount = NumCPU]

\* m := int(math.Ceil(u)), then m = p.maxRoutines.value if m is larger.
Desired(u, max) == Min(Ceiling(u), max)

\* The variables the calls of a controller leave alone.
nonControllerVars ==
    << processVars, configuration, heap, safe, calls, reporter, C >>

\* newController for two controllers with the same configuration.
NewControllers(c) ==
    /\ \A k \in Controllers : controller[k].op = "none"
    /\ controller' = [k \in Controllers |-> NewController(c)]
    /\ UNCHANGED nonControllerVars

\* u, e := p.controller.next(usage) and the target a tick computes from u.
ControllerNext(k, input) ==
    /\ controller[k].op # "none"
    /\ controller[k].ops < MaxControllerCalls
    /\ LET c == next(controller[k], input)
       IN controller' = [controller EXCEPT ![k] =
              [c EXCEPT !.input = input,
                        !.m = Desired(c.u, maxRoutines),
                        !.op = "next", !.ops = @ + 1,
                        !.since = Append(@, << input, c.u >>)]]
    /\ UNCHANGED nonControllerVars

\* p.controller.reset()
ControllerReset(k) ==
    /\ controller[k].op # "none"
    /\ controller[k].ops < MaxControllerCalls
    /\ controller' = [controller EXCEPT ![k] =
           [reset(@) EXCEPT !.op = "reset", !.ops = @ + 1,
                            !.resets = @ + 1, !.since = << >>]]
    /\ UNCHANGED nonControllerVars

InitController == Init /\ kind = "Variable"

NextController ==
    \/ \E c \in Configurations : NewControllers(c)
    \/ \E k \in Controllers : \E input \in 0 .. MaxUsage :
          ControllerNext(k, input)
    \/ \E k \in Controllers : ControllerReset(k)

ControllerSpec == InitController /\ [][NextController]_vars

\* ---------------------------------------------------------------- reporter
\* The variables the calls of a reporter leave alone.
nonReporterVars ==
    << processVars, configuration, heap, safe, calls, controller, C >>

\* newReporter: lastTime: time.Now(), lastTick: C.clock().
NewReporter(nowClock, nowActual) ==
    /\ reporter.op = "none"
    /\ reporter' = [NoReporter EXCEPT !.op = "new",
                                      !.nowClock = nowClock,
                                      !.nowActual = nowActual,
                                      !.lastTick = nowClock,
                                      !.lastTime = nowActual]
    /\ UNCHANGED nonReporterVars

\* reporter.usage; neither clock runs backwards.
Usage(nowClock, nowActual) ==
    /\ reporter.op # "none"
    /\ nowClock >= reporter.lastTick /\ nowActual >= reporter.lastTime
    /\ LET clockSeconds == Rat(nowClock - reporter.lastTick, ClocksPerSec)
           actualSeconds == Rat(nowActual - reporter.lastTime, InstantsPerSec)
       IN reporter' = [reporter EXCEPT
                         !.op = "usage",
                         !.nowClock = nowClock, !.nowActual = nowActual,
                         !.lastTick = nowClock, !.lastTime = nowActual,
                         !.usage = Quotient(clockSeconds, actualSeconds),
                         !.actualSeconds = actualSeconds]
    /\ UNCHANGED nonReporterVars

\* reporter.reset
ReporterReset(nowClock, nowActual) ==
    /\ reporter.op # "none"
    /\ nowClock >= reporter.lastTick /\ nowActual >= reporter.lastTime
    /\ reporter' = [reporter EXCEPT
                      !.op = "reset",
                      !.nowClock = nowClock, !.nowActual = nowActual,
                      !.lastTime = nowActual, !.lastTick = nowClock]
    /\ UNCHANGED nonReporterVars

InitReporter == Init /\ kind = "Variable" /\ maxRoutines = 1

NextReporter ==
    \/ \E nowClock, nowActual \in 0 .. MaxTime :
          NewReporter(nowClock, nowActual)
    \/ \E nowClock, nowActual \in 0 .. MaxTime : Usage(nowClock, nowActual)
    \/ \E nowClock, nowActual \in 0 .. MaxTime :
          ReporterReset(nowClock, nowActual)

ReporterSpec == InitReporter /\ [][NextReporter]_vars

\* ------------------------------------------------------------ properties
Range == 0 .. (iterations - 1)

\* The steps of the goroutines of the process (not the ticker's firing, not
\* the caller's setters).
ProgramStep ==
    \/ Wait
    \/ StopTicker
    \/ \E w \in BagToSet(workers) : runRoutine(w)
    \/ \E g \in OptimizerIds : beginOptimizing(g)

\* C1: when VariableProcess.Execute(N, op) has returned and Stop was not
\* called, op has been invoked on every index of [0, N).
C1_VariableCompleteness ==
    (kind = "Variable" /\ pcE = "returned" /\ ~stopped)
        => \A i \in Range : executed[i] >= 1

\* C2: during a VariableProcess.Execute no index is passed to op more than
\* once.
C2_VariableNoDoubleExecution ==
    kind = "Variable" => \A i \in Indices : executed[i] <= 1

\* C3: when FixedProcess.Execute(N, op) has returned and Stop was not
\* called, op has been invoked on every index of [0, N), for every worker
\* count.
C3_FixedCompleteness ==
    (kind # "Variable" /\ pcE = "returned" /\ ~stopped)
        => \A i \in Range : executed[i] >= 1

C3_Witness ==
    /\ kind # "Variable" /\ pcE = "returned" /\ ~stopped
    /\ numRoutines = MaxFixedRoutines /\ iterations = MaxIterations
    /\ \A i \in Range : executed[i] >= 1

\* C4: during a FixedProcess.Execute without Stop no index is passed to op
\* more than once, for every worker count.
C4_FixedNoDoubleExecution ==
    (kind # "Variable" /\ ~stopped) => \A i \in Indices : executed[i] <= 1

\* C5: once VariableProcess.Execute has returned, no worker it created is
\* running.
C5_NoWorkerOutlivesExecute ==
    (kind = "Variable" /\ pcE = "returned") => workers = EmptyBag

\* C6: a VariableProcess.Execute that has begun and not returned can always
\* take a further step towards its return.
C6_ExecuteCanProceed ==
    (kind = "Variable" /\ pcE \notin {"ready", "returned"}) => ENABLED ProgramStep

\* C7: while VariableProcess.Execute is active and the final index has not
\* been dispensed, numRoutines >= 1.
C7_PoolLowerBound ==
    (kind = "Variable" /\ Executing /\ iteration < iterations - 1)
        => numRoutines >= 1

\* C8: while VariableProcess.Execute is active, numRoutines <= maxRoutines;
\* stated here for the runs in which SetMaxRoutines has not been called.
C8_PoolUpperBound ==
    (kind = "Variable" /\ Executing /\ changes.max = 0)
        => numRoutines <= maxRoutines

\* C9: when the operation of index k has called Stop() and Execute has
\* returned, every index i <= k has been passed to op.
C9_StopKeepsPrefix ==
    (pcE = "returned" /\ stopped) => \A i \in 0 .. stopAt : executed[i] >= 1

ClaimCount == BagCardinality([w \in {x \in BagToSet(workers) : x.pc = "op"}
                                 |-> workers[w]])

MaxWorkers == IF kind = "Variable" THEN maxRoutines ELSE numRoutines

Dispensed == IF kind = "Variable" THEN dispensed + 1 ELSE dispensed

C12_StopIsPrompt == stopped ~> (pcE = "returned")

\* C13: VariableProcess.Execute(0, op) spawns no worker, never invokes op
\* and does not fail.
C13_EmptyRange ==
    (kind = "Variable" /\ executes >= 1 /\ iterations = 0)
        => /\ workers = EmptyBag
           /\ \A i \in Indices : executed[i] = 0
           /\ pcE # "panic"

\* C14: VariableProcess.Execute never fails at run time: whenever Execute or
\* SetOptimizationInterval stops the ticker, the ticker has been created.
C14_ExecuteNeverFails == kind = "Variable" => pcE # "panic"

\* C15: when Execute is called on a VariableProcess that has completed an
\* Execute, the run starts from the state of a fresh process: iteration = 0,
\* numRoutines = 1, numToRemove = 0, the new worker the only one, the
\* WaitGroup counting it alone, and no tick of the previous run pending or
\* in progress and no ticker of the previous run running.
C15_ReuseFreshStart ==
    [][ExecuteAgain =>
         /\ iteration' = 0 /\ numRoutines' = 1 /\ numToRemove' = 0
         /\ group' = 1
         /\ workers' = Copies(NewWorker(kind), 1)
         /\ \A g \in OptimizerIds :
               optimizers[g].pc # "none" =>
                  /\ optimizers'[g].pc = "recv"
                  /\ ~optimizers'[g].buffered
                  /\ ~optimizers'[g].running]_vars

\* The workers that have been spawned and have not left their loop.
Live == BagCardinality([w \in {x \in BagToSet(workers) : x.pc # "done"}
                           |-> workers[w]])

C17_SetMaxRoutinesNextTick ==
    [][\A g \in OptimizerIds :
          optimizers[g].afterSetMax =>
            /\ (optimizers[g].pc = "control" /\ optimizers'[g].pc = "apply")
                  => optimizers'[g].routines + optimizers'[g].n <= maxRoutines
            /\ (optimizers[g].pc = "apply" /\ optimizers'[g].pc = "recv"
                   /\ optimizers[g].n > 0)
                  => numRoutines' <= maxRoutines
            /\ (optimizers[g].pc = "apply" /\ optimizers'[g].pc = "recv"
                   /\ optimizers[g].routines > maxRoutines)
                  => numToRemove' >= optimizers[g].routines - maxRoutines]_vars

\* The tickers that have been created and not stopped.
RunningTickers == {g \in OptimizerIds : optimizers[g].running}

\* C18: at every instant at most one ticker of a VariableProcess is running,
\* and none is once Execute has returned.
C18_SingleTicker ==
    kind = "Variable" =>
        /\ Cardinality(RunningTickers) <= 1
        /\ pcE = "returned" => RunningTickers = {}

\* C19: the configuration the controller uses changes only through
\* SetControllerConfiguration: as long as p.controller.configuration is not
\* assigned, the values the controller reads through it stay the same,
\* whatever the caller does with the objects it passed in or received.
C19_ConfigurationCopySemantics ==
    [][(configuration # 0 /\ configuration' = configuration)
          => heap'[configuration'] = heap[configuration]]_vars

\* C20: a VariableProcess exists only with a positive maxRoutines and a
\* positive optimization interval.
C20_InvalidConfigurationRejected ==
    (kind = "Variable" /\ pcE # "new")
        => maxRoutines > 0 /\ optimizationInterval > 0

\* C21: a VariableProcess constructed with maxRoutines <= 0 (and a positive
\* interval) runs with a pool of exactly one worker: no tick grows the pool,
\* no shrink budget is ever stored, so the sole worker never leaves through
\* the shrink path, and once the wait of Execute is over every index of
\* [0, N) has been passed to the operation.
C21_MinimumPoolOfOne ==
    (kind = "Variable" /\ pcE # "new" /\ maxRoutines <= 0
        /\ optimizationInterval > 0 /\ executes >= 1)
        => /\ numRoutines = 1
           /\ numToRemove = 0
           /\ BagCardinality(workers) <= 1
           /\ \A w \in BagToSet(workers) : w.pc \notin {"remove", "leave"}
           /\ (pcE \in {"stopTicker", "returned", "panic"} /\ ~stopped)
                  => \A i \in Range : executed[i] = 1

\* C21 witness: Execute of the largest range has returned from a process
\* with maxRoutines <= 0 after at least one tick, every index executed.
C21_Witness ==
    /\ kind = "Variable" /\ maxRoutines <= 0 /\ optimizationInterval > 0
    /\ pcE = "returned" /\ ticks >= 1
    /\ iterations = MaxReuseIterations
    /\ \A i \in Range : executed[i] = 1

\* The calls that have returned.
Returned == {t \in Threads : calls[t].pc = "done"}

\* C22: the calls of a safeInt take effect one at a time: at most one
\* goroutine is between Lock and Unlock; get returns the value it found
\* (0 when no call has changed the counter), set(n) returns n, add and
\* subtract return the value their own update left; and when all
\* MaxThreads goroutines called add(1) on the zero counter, they got the
\* distinct consecutive values 1 .. MaxThreads.
C22_SafeIntLinearizable ==
    /\ Cardinality({t \in Threads :
                       calls[t].pc \in {"update", "return", "unlock"}}) <= 1
    /\ \A t \in Threads : calls[t].pc \in {"unlock", "done"} =>
          /\ calls[t].ret = calls[t].post
          /\ calls[t].op = "set" => calls[t].ret = calls[t].n
          /\ (calls[t].op = "get"
                 /\ \A u \in Threads : calls[u].op \in {"get", "none"})
                => calls[t].ret = 0
    /\ (Returned = Threads
           /\ \A t \in Threads : calls[t].op = "add" /\ calls[t].n = 1)
          => {calls[t].ret : t \in Threads} = 1 .. MaxThreads

\* C22 witness: three concurrent add(1) calls on the zero counter: one has
\* returned 1, one has got 2 and still holds the mutex, one waits in Lock.
C22_Witness ==
    /\ \A t \in Threads : calls[t].op = "add" /\ calls[t].n = 1
    /\ \E t \in Threads : calls[t].pc = "done" /\ calls[t].ret = 1
    /\ \E t \in Threads : calls[t].pc = "unlock" /\ calls[t].ret = 2
                              /\ safe.mutex = t
    /\ \E t \in Threads : calls[t].pc = "lock"

\* C23 as stated: while Execute runs the iteration counter never decreases.
C23_CounterMonotonic ==
    [][Executing => iteration' >= iteration]_vars

\* C23: while Execute runs the iteration counter never decreases, except
\* that a Stop() called when the counter is already above N lowers it to
\* exactly N; a counter that has reached N never falls below N.
C23_CounterMonotonicButStop ==
    [][Executing =>
          /\ \/ iteration' >= iteration
             \/ stopped' /\ iteration > iterations /\ iteration' = iterations
          /\ iteration >= iterations => iteration' >= iterations]_vars

\* C23 witness: the first Stop() found the counter above N and lowered it.
C23_Witness ==
    /\ Executing /\ stopped
    /\ dispensed > iterations
    /\ iteration = iterations

\* The ticks between their p.group.Add(1) and the end of optimizeNumRoutines.
TicksInProgress == {g \in OptimizerIds : optimizers[g].pc \in {"control", "apply"}}

\* The completion counter is the number of workers that have not signalled
\* plus the number of ticks in progress.
Accounted ==
    kind = "Variable" =>
        /\ group >= 0
        /\ group = BagCardinality(workers) + Cardinality(TicksInProgress)

\* C24: the completion counter of a VariableProcess is never negative and
\* always equals the workers not yet signalled plus the ticks in progress,
\* and at the moment Execute returns every worker spawned so far has
\* signalled.
C24_CompletionWaitDiscipline ==
    [][/\ Accounted'
       /\ (kind = "Variable" /\ pcE = "stopTicker" /\ pcE' = "returned")
             => workers = EmptyBag]_vars

\* C25: a tick of a VariableProcess begins only while Execute is active and
\* its completion counter is positive: once the counter of an Execute has
\* reached zero it stays zero, also when a tick was pending as the ticker
\* was stopped, and no tick begins after Execute has returned.
C25_TicksOnlyInLiveRun ==
    [][(kind = "Variable" /\ executes >= 1 /\ executes' = executes)
          => /\ group = 0 => group' = 0
             /\ (TicksInProgress' \ TicksInProgress) # {}
                   => (Executing /\ group > 0)]_vars

\* The number of workers at a position of runRoutine.
At(pc) == BagCardinality([w \in {x \in BagToSet(workers) : x.pc = pc}
                             |-> workers[w]])

\* C26: the shrink check of a VariableProcess worker is atomic over
\* (numToRemove, numRoutines): a worker that leaves through the shrink
\* branch takes a unit of the budget that is still there, so that no two
\* workers consume the same unit.
C26_ShrinkCheckAtomic ==
    [][(kind = "Variable" /\ At("leave")' > At("leave"))
          => numToRemove >= 1]_vars

\* C27: in every reachable state of a VariableProcess, numToRemove >= 0.
C27_BudgetNeverNegative ==
    kind = "Variable" => numToRemove >= 0

\* C28: whenever a worker of a VariableProcess loads numToRemove for its
\* shrink check, the value is at most numRoutines - 1.
C28_BudgetWithinPool ==
    [][(kind = "Variable" /\ At("load")' < At("load"))
          => numToRemove <= numRoutines - 1]_vars

\* C29: a worker whose shrink check found numToRemove > 0 and no second
\* worker decrements numToRemove by exactly one, leaves numRoutines as it
\* is, does not exit and goes on to claim the next index.
C29_LastWorkerAbsorbs ==
    [][(kind = "Variable" /\ At("absorb")' < At("absorb"))
          => /\ numToRemove' = numToRemove - 1
             /\ numRoutines' = numRoutines
             /\ BagCardinality(workers') = BagCardinality(workers)
             /\ At("add")' = At("add") + 1
             /\ At("leave")' = At("leave") /\ At("done")' = At("done")]_vars

\* C29 witness: the only worker of the pool has found numToRemove > 0 and
\* numRoutines = 1 and is about to absorb a unit of the budget.
C29_Witness ==
    /\ kind = "Variable" /\ Executing
    /\ At("absorb") = 1 /\ BagCardinality(workers) = 1
    /\ numRoutines = 1 /\ numToRemove > 0

\* C30: a tick of a VariableProcess that computed n = m - routines < 0 sets
\* numToRemove to exactly -n, whatever budget was pending, spawns no
\* worker and leaves numRoutines unchanged.
C30_ShrinkingTickReplacesBudget ==
    [][\A g \in OptimizerIds :
          (kind = "Variable" /\ optimizers[g].pc = "apply"
              /\ optimizers[g].n < 0 /\ optimizers'[g].pc = "recv")
             => /\ numToRemove' = 0 - optimizers[g].n
                /\ workers' = workers
                /\ numRoutines' = numRoutines]_vars

\* C31: after a tick of a VariableProcess that grows the pool or leaves it
\* unchanged (n >= 0), no shrink budget is pending, so that a budget set by
\* an earlier tick cannot make a freshly spawned worker exit.
C31_NoStaleShrink ==
    [][\A g \in OptimizerIds :
          (kind = "Variable" /\ optimizers[g].pc = "apply"
              /\ optimizers[g].n >= 0 /\ optimizers'[g].pc = "recv")
             => numToRemove' <= 0]_vars

\* The number of workers that run the operation of index i.
AtOp(i) == BagCardinality([w \in {x \in BagToSet(workers) :
                                       x.pc = "op" /\ x.i = i}
                              |-> workers[w]])

\* C32: a tick of a VariableProcess that computed n = m - routines > 0
\* raises numRoutines by exactly n, spawns exactly n workers, none of which
\* has run yet, and adds n - 1 to the completion counter, which with the
\* one unit the tick added when it began is n in total; and a spawned
\* worker starts at the value the iteration counter has when it reads it.
C32_GrowingTickAddsDelta ==
    [][/\ \A g \in OptimizerIds :
            (kind = "Variable" /\ optimizers[g].pc = "apply"
                /\ optimizers[g].n > 0 /\ optimizers'[g].pc = "recv")
               => /\ numRoutines' = numRoutines + optimizers[g].n
                  /\ BagCardinality(workers')
                        = BagCardinality(workers) + optimizers[g].n
                  /\ At("get")' = At("get") + optimizers[g].n
                  /\ group' = group + optimizers[g].n - 1
                  /\ g \in TicksInProgress /\ g \notin TicksInProgress'
       /\ (kind = "Variable" /\ At("get")' < At("get"))
             => IF iteration < iterations
                  THEN AtOp(iteration)' = AtOp(iteration) + 1
                  ELSE At("done")' = At("done") + 1]_vars

\* C32 witness: a growing tick has just spawned a second worker, which has
\* not run yet, while the iteration counter has already advanced.
C32_Witness ==
    /\ kind = "Variable" /\ Executing
    /\ numRoutines = 2 /\ group = 2 /\ BagCardinality(workers) = 2
    /\ At("get") = 1 /\ iteration >= 1 /\ iteration < iterations
    /\ TicksInProgress = {}

Max(a, b) == IF a > b THEN a ELSE b

\* math.Round: to the nearest integer, halves away from zero.
Round(u) ==
    IF u[1] >= 0 THEN (2 * u[1] + u[2]) \div (2 * u[2])
                 ELSE 0 - ((2 * (0 - u[1]) + u[2]) \div (2 * u[2]))

\* C33: the target of every tick is the controller output rounded to the
\* nearest integer and clamped to [1, maxRoutines].
C33_TickTarget ==
    \A k \in Controllers :
        controller[k].op = "next"
           => controller[k].m
                 = Max(1, Min(Round(controller[k].u), maxRoutines))

\* The controller step as specified: the output filter weighs the previous
\* output with 1 - OutputResponse.
Step(c, input) ==
    LET cfg == c.configuration
        e == RAdd(RMul(cfg.ErrorResponse,
                       RSub(One, Rat(input, c.cpuCount))),
                  RMul(RSub(One, cfg.ErrorResponse), c.previousError))
        i == RAdd(c.totalError, e)
        d == RSub(e, c.previousError)
        raw == RAdd(RAdd(RMul(cfg.Kp, e), RMul(cfg.Ki, i)), RMul(cfg.Kd, d))
        out == RAdd(RMul(cfg.OutputResponse, raw),
                    RMul(RSub(One, cfg.OutputResponse), c.previousOutput))
    IN [e |-> e, i |-> i, u |-> out]

\* C34: every call of controller.next returns the specified output and
\* error and stores previousError = e, totalError = i, previousOutput = u;
\* with Kp = 1, Ki = Kd = 0 and both responses 1 the output is
\* 1 - input/cpuCount.
C34_ControllerStep ==
    [][\A k \in Controllers :
          (controller'[k].op = "next" /\ controller'[k].ops # controller[k].ops)
             => LET want == Step(controller[k], controller'[k].input)
                    cfg == controller[k].configuration
                IN /\ controller'[k].u = want.u
                   /\ controller'[k].e = want.e
                   /\ controller'[k].previousError = want.e
                   /\ controller'[k].totalError = want.i
                   /\ controller'[k].previousOutput = want.u
                   /\ (cfg.Kp = One /\ cfg.Ki = Zero /\ cfg.Kd = Zero
                          /\ cfg.ErrorResponse = One
                          /\ cfg.OutputResponse = One)
                         => controller'[k].u
                              = RSub(One, Rat(controller'[k].input,
                                              controller[k].cpuCount))]_vars

\* C35: after controller.reset, previousError, totalError and
\* previousOutput are all zero.
C35_ResetClearsState ==
    \A k \in Controllers :
        controller[k].op = "reset"
           => /\ controller[k].previousError = Zero
              /\ controller[k].totalError = Zero
              /\ controller[k].previousOutput = Zero

\* C36: two controllers with the same configuration and cpuCount that have
\* both been reset and have since received the same inputs have returned
\* the same outputs, whatever they were called with before their reset.
C36_ControllerDeterminism ==
    \A j, k \in Controllers :
        (controller[j].resets >= 1 /\ controller[k].resets >= 1
            /\ Len(controller[j].since) = Len(controller[k].since)
            /\ \A n \in 1 .. Len(controller[j].since) :
                  controller[j].since[n][1] = controller[k].since[n][1])
           => controller[j].since = controller[k].since

\* C37: a call of usage with no wall-clock time elapsed since the previous
\* sample or reset returns usage 0.0 and a positive interval, and sets
\* lastTime and lastTick to the current readings.
C37_ZeroIntervalPolicy ==
    [][(reporter'.op = "usage" /\ reporter.op # "none"
           /\ reporter'.nowActual = reporter.lastTime)
          => /\ reporter'.usage = << "finite", Zero >>
             /\ reporter'.actualSeconds[1] > 0
             /\ reporter'.lastTime = reporter'.nowActual
             /\ reporter'.lastTick = reporter'.nowClock]_vars

\* C38: a Stop() called while no Execute is active does not affect the next
\* Execute(N, op): when it has returned, every index of [0, N) has been
\* executed (exactly once), and during it no index outside has been.
C38_IdleStopIsNoOp ==
    kind = "FixedGetAndAdd" =>
        /\ \A i \in Indices \ Range : executed[i] = 0
        /\ \A i \in Range : executed[i] <= 1
        /\ pcE = "returned" => \A i \in Range : executed[i] = 1

\* C38 witness: Stop() was called between two Execute calls, when the
\* counter had advanced, and the second Execute has run its whole range.
C38_Witness ==
    /\ kind = "FixedGetAndAdd" /\ pcE = "returned"
    /\ executes = 2 /\ stopped /\ dispensed >= 1
    /\ iterations = MaxIterations
    /\ \A i \in Range : executed[i] = 1

\* C39: SyncedProcess.Execute(N, op) invokes op exactly once on each index
\* of [0, N) and on no other index, and sends on C only after all of these
\* invocations.
C39_SyncedCompleteness ==
    kind = "Synced" =>
        /\ \A i \in Indices \ Range : executed[i] = 0
        /\ \A i \in Range : executed[i] <= 1
        /\ C = 1 => \A i \in Range : executed[i] = 1

\* The indices of [0, N) that fall to worker n and lie below i.
Handled(n, i) == {x \in Range : x % numRoutines = n /\ x < i}

\* C40: in AlternatingProcess.Execute(N, op) worker n handles exactly the
\* indices i of [0, N) with i mod W = n, in increasing order: when its loop
\* variable is i it has executed its indices below i and no other, no
\* index is executed twice, each worker's loop variable only grows, and
\* Execute returns only after all W workers have finished, with every
\* index executed once.
C40_AlternatingPartition ==
    [][kind = "Alternating" =>
          /\ \A w \in BagToSet(workers') :
                /\ workers'[w] = 1
                /\ w.i % numRoutines' = w.n
                /\ \A x \in Range' :
                      x % numRoutines' = w.n
                         => executed'[x] = IF x \in Handled(w.n, w.i)' THEN 1
                                                                      ELSE 0
                /\ \A v \in BagToSet(workers) : v.n = w.n => w.i >= v.i
          /\ \A x \in Indices \ Range' : executed'[x] = 0
          /\ pcE' = "returned"
                => /\ workers' = EmptyBag
                   /\ \A x \in Range' : executed'[x] = 1]_vars

\* C40 witness: with two workers and the largest range, worker 0 has
\* executed index 0 and runs index 2 while worker 1 has not started.
C40_Witness ==
    /\ kind = "Alternating" /\ numRoutines = 2
    /\ iterations = MaxIterations
    /\ AltWorker("op", 2, 0) \in BagToSet(workers)
    /\ AltWorker("loop", 1, 1) \in BagToSet(workers)
    /\ executed[0] = 1 /\ executed[1] = 0

====
